---- MODULE Spec2Model ----
(***************************************************************************)
(* A model of package recaptcha (src/recaptcha.go): the process-wide       *)
(* private key, Init, check, Confirm, ConfirmV3 and convertErrorCodes.     *)
(*                                                                         *)
(* Go values are represented as follows.                                   *)
(*   string        a TLA+ string; the variable recaptchaPrivateKey, which  *)
(*                 is read and written without synchronisation, is kept at *)
(*                 the level of its two machine words [data, len]          *)
(*   error         [isNil, msg, cause]: nil, or a message and the message  *)
(*                 of the error it wraps (%w), "" when it wraps none       *)
(*   []string      [isNil, elems]: a nil slice and an empty slice differ   *)
(*   float64       the number in tenths (9 stands for 0.9)                 *)
(*   JSON value    [type, b, n, s, a] with type in bool, number, string,   *)
(*                 array, null                                             *)
(***************************************************************************)
EXTENDS Integers, Sequences, FiniteSets, TLC

\* ------------------------------------------------------------- bounds
\* Verification calls (Confirm / ConfirmV3 invocations) in one behaviour.
MaxCalls == 1
\* Init invocations in one behaviour.
MaxInits == 2
\* Longest error-code list handed to convertErrorCodes directly.
MaxCodes == 2
\* Direct calls of convertErrorCodes on the same slice.
MaxTranslate == 2

Calls == 1..MaxCalls
Inits == 1..MaxInits

\* ------------------------------------------------------------- errors
NilError == [isNil |-> TRUE, msg |-> "", cause |-> ""]

\* errors.New / an error of another package, with message msg
NewError(msg) == [isNil |-> FALSE, msg |-> msg, cause |-> ""]

\* fmt.Errorf(prefix + "%w", err)
Errorf_w(prefix, err) == [isNil |-> FALSE, msg |-> prefix \o err.msg, cause |-> err.msg]

\* ------------------------------------------------------------- slices
NilSlice == [isNil |-> TRUE, elems |-> <<>>]

MakeSlice(elems) == [isNil |-> FALSE, elems |-> elems]

\* ------------------------------------------------------- the response
ZeroTime == "0001-01-01T00:00:00Z"

\* var r recaptchaResponse
ZeroResponse ==
    [Success |-> FALSE, Score |-> 0, Action |-> "", ChallengeTS |-> ZeroTime,
     Hostname |-> "", ErrorCodes |-> NilSlice]

responseErrors ==
    [c \in {"missing-input-secret", "invalid-input-secret", "missing-input-response",
            "invalid-input-response", "bad-request", "timeout-or-duplicate"} |->
        CASE c = "missing-input-secret"   -> "the secret parameter is missing"
          [] c = "invalid-input-secret"   -> "the secret parameter is invalid or malformed"
          [] c = "missing-input-response" -> "the response parameter is missing"
          [] c = "invalid-input-response" -> "the response parameter is invalid or malformed"
          [] c = "bad-request"            -> "the request is invalid or malformed"
          [] c = "timeout-or-duplicate"   ->
                "the response is no longer valid - too old or used previously"]

\* ---------------------------------------------------- convertErrorCodes
\* fmt's %v of a []string: the elements, space-separated, in brackets.
RECURSIVE JoinFrom(_, _)
JoinFrom(elems, i) ==
    IF i > Len(elems) THEN ""
    ELSE IF i = Len(elems) THEN elems[i]
    ELSE elems[i] \o " " \o JoinFrom(elems, i + 1)

FormatV(elems) == "[" \o JoinFrom(elems, 1) \o "]"

\* TranslateCode with the code left out of the text for an unknown code.
TranslateCodeDropUnknown(e) ==
    IF e \in DOMAIN responseErrors
    THEN responseErrors[e]
    ELSE "unknown error code"

\* One iteration of the loop body: the text written back to errorCodes[i].
TranslateCode(e) ==
    IF e \in DOMAIN responseErrors
    THEN responseErrors[e]
    ELSE "unknown error code " \o e

\* for i, e := range errorCodes { errorCodes[i] = ... }: the elements of the
\* slice after iterations i .. len(errorCodes); the loop writes through the
\* caller's backing array.
RECURSIVE RangeLoop(_, _)
RangeLoop(elems, i) ==
    IF i > Len(elems) THEN elems
    ELSE RangeLoop([elems EXCEPT ![i] = TranslateCode(elems[i])], i + 1)

\* convertErrorCodes with the guard errorCodes == nil in place of
\* len(errorCodes) == 0.
convertErrorCodesNilOnly(errorCodes) ==
    IF errorCodes.isNil
    THEN [err |-> NilError, errorCodes |-> errorCodes]
    ELSE LET after == RangeLoop(errorCodes.elems, 1)
         IN  [err |-> NewError("reCAPTCHA request errors: " \o FormatV(after)),
              errorCodes |-> [errorCodes EXCEPT !.elems = after]]

\* convertErrorCodes(errorCodes): the error returned, and the contents of the
\* caller's slice when the call returns.
convertErrorCodes(errorCodes) ==
    IF Len(errorCodes.elems) = 0
    THEN [err |-> NilError, errorCodes |-> errorCodes]
    ELSE LET after == RangeLoop(errorCodes.elems, 1)
         IN  [err |-> NewError("reCAPTCHA request errors: " \o FormatV(after)),
              errorCodes |-> [errorCodes EXCEPT !.elems = after]]

\* -------------------------------------------------- the response body
JBool(b)   == [type |-> "bool",   b |-> b,     n |-> 0, s |-> "", a |-> <<>>]
JNumber(n) == [type |-> "number", b |-> FALSE, n |-> n, s |-> "", a |-> <<>>]
JString(s) == [type |-> "string", b |-> FALSE, n |-> 0, s |-> s,  a |-> <<>>]
JArray(a)  == [type |-> "array",  b |-> FALSE, n |-> 0, s |-> "", a |-> a]
JNull      == [type |-> "null",   b |-> FALSE, n |-> 0, s |-> "", a |-> <<>>]

Member(key, val) == [key |-> key, val |-> val]

\* A body: syntax = "" when the text is well-formed JSON (an object with the
\* members listed, in order), else the scanner's complaint about it.
JSONBody(syntax, members) == [syntax |-> syntax, members |-> members]

\* time.Time's UnmarshalJSON accepts an RFC 3339 timestamp; here the UTC form
\* yyyy-mm-ddThh:mm:ssZ, recognised by its separators.
IsRFC3339(s) ==
    /\ Len(s) = 20
    /\ SubSeq(s, 5, 5) = "-" /\ SubSeq(s, 8, 8) = "-" /\ SubSeq(s, 11, 11) = "T"
    /\ SubSeq(s, 14, 14) = ":" /\ SubSeq(s, 17, 17) = ":" /\ SubSeq(s, 20, 20) = "Z"

TypeError(jsonType, key, goType) ==
    NewError("json: cannot unmarshal " \o jsonType \o " into Go struct field recaptchaResponse."
             \o key \o " of type " \o goType)

\* The first error is the one kept (decodeState.saveError).
SaveError(saved, err) == IF saved.isNil THEN err ELSE saved

\* Decoding of the object's members i .. n into r (encoding/json's object()):
\* a member whose key is no field tag is skipped, null leaves a bool, number,
\* string or time field alone and makes a slice nil, a value of the wrong JSON
\* type is skipped and recorded as the error to return at the end, and an
\* error of time.Time's own UnmarshalJSON ends the decoding at once.
RECURSIVE DecodeMembers(_, _, _, _)
DecodeMembers(members, i, r, saved) ==
    IF i > Len(members) THEN [r |-> r, err |-> saved]
    ELSE
      LET m == members[i]
          v == m.val
          skip == DecodeMembers(members, i + 1, r, saved)
          mismatch(goType) ==
              DecodeMembers(members, i + 1, r, SaveError(saved, TypeError(v.type, m.key, goType)))
          store(r2) == DecodeMembers(members, i + 1, r2, saved)
      IN
      CASE m.key = "success" ->
             IF v.type = "bool" THEN store([r EXCEPT !.Success = v.b])
             ELSE IF v.type = "null" THEN skip ELSE mismatch("bool")
        [] m.key = "score" ->
             IF v.type = "number" THEN store([r EXCEPT !.Score = v.n])
             ELSE IF v.type = "null" THEN skip ELSE mismatch("float64")
        [] m.key = "action" ->
             IF v.type = "string" THEN store([r EXCEPT !.Action = v.s])
             ELSE IF v.type = "null" THEN skip ELSE mismatch("string")
        [] m.key = "hostname" ->
             IF v.type = "string" THEN store([r EXCEPT !.Hostname = v.s])
             ELSE IF v.type = "null" THEN skip ELSE mismatch("string")
        [] m.key = "challenge_ts" ->
             IF v.type = "null" THEN skip
             ELSE IF v.type = "string" /\ IsRFC3339(v.s)
                  THEN store([r EXCEPT !.ChallengeTS = v.s])
             ELSE IF v.type = "string"
                  THEN [r |-> r, err |-> NewError("parsing time \"" \o v.s \o "\": cannot parse")]
             ELSE [r |-> r,
                   err |-> NewError("Time.UnmarshalJSON: input is not a JSON string")]
        [] m.key = "error-codes" ->
             IF v.type = "array" THEN store([r EXCEPT !.ErrorCodes = MakeSlice(v.a)])
             ELSE IF v.type = "null" THEN store([r EXCEPT !.ErrorCodes = NilSlice])
             ELSE mismatch("[]string")
        [] OTHER -> skip

\* json.Unmarshal(body, &r): the text is validated as a whole before anything
\* is stored, so a syntax error leaves r as it was.
Unmarshal(body, r) ==
    IF body.syntax # ""
    THEN [r |-> r, err |-> NewError(body.syntax)]
    ELSE DecodeMembers(body.members, 1, r, NilError)

\* ------------------------------------------------ what the network did
\* The remote end's answer to one POST, as check sees it: http.PostForm
\* failed, ioutil.ReadAll failed, or a body was read in full.
PostFailed(cause) == [kind |-> "postError", cause |-> cause, body |-> JSONBody("", <<>>)]
ReadFailed(cause) == [kind |-> "readError", cause |-> cause, body |-> JSONBody("", <<>>)]
Answered(body)    == [kind |-> "body", cause |-> "", body |-> body]

\* check with the error of ioutil.ReadAll ignored: what was read is decoded.
checkIgnoreRead(outcome) ==
    IF outcome.kind = "postError"
    THEN [r |-> ZeroResponse, err |-> Errorf_w("post error: ", NewError(outcome.cause))]
    ELSE LET u == Unmarshal(outcome.body, ZeroResponse)
         IN  IF ~u.err.isNil
             THEN [r |-> u.r, err |-> Errorf_w("read error: JSON unmarshal error: ", u.err)]
             ELSE [r |-> u.r, err |-> NilError]

\* check, from the return of http.PostForm on: the response it decoded and
\* its error.
check(outcome) ==
    IF outcome.kind = "postError"
    THEN [r |-> ZeroResponse, err |-> Errorf_w("post error: ", NewError(outcome.cause))]
    ELSE IF outcome.kind = "readError"
    THEN [r |-> ZeroResponse,
          err |-> Errorf_w("read error: could not read body: ", NewError(outcome.cause))]
    ELSE LET u == Unmarshal(outcome.body, ZeroResponse)
         IN  IF ~u.err.isNil
             THEN [r |-> u.r, err |-> Errorf_w("read error: JSON unmarshal error: ", u.err)]
             ELSE [r |-> u.r, err |-> NilError]

\* Confirm with the provider's error codes dropped when success is true.
ConfirmSuppress(outcome) ==
    LET c == check(outcome)
    IN  IF ~c.err.isNil
        THEN [success |-> FALSE, err |-> c.err]
        ELSE [success |-> c.r.Success,
              err |-> IF c.r.Success THEN NilError
                      ELSE convertErrorCodes(c.r.ErrorCodes).err]

\* Confirm returning resp.Success beside check's error.
ConfirmLeak(outcome) ==
    LET c == check(outcome)
    IN  IF ~c.err.isNil
        THEN [success |-> c.r.Success, err |-> c.err]
        ELSE [success |-> c.r.Success, err |-> convertErrorCodes(c.r.ErrorCodes).err]

\* Confirm's return values, given what its POST came back with.
Confirm(outcome) ==
    LET c == check(outcome)
    IN  IF ~c.err.isNil
        THEN [success |-> FALSE, err |-> c.err]
        ELSE [success |-> c.r.Success, err |-> convertErrorCodes(c.r.ErrorCodes).err]

\* ConfirmV3 without the call of convertErrorCodes.
ConfirmV3NoTranslate(outcome) ==
    LET c == check(outcome)
    IN  IF ~c.err.isNil
        THEN [success |-> FALSE, score |-> 0, action |-> "", err |-> c.err]
        ELSE [success |-> c.r.Success, score |-> c.r.Score, action |-> c.r.Action,
              err |-> NilError]

\* ConfirmV3's return values, given what its POST came back with.
ConfirmV3(outcome) ==
    LET c == check(outcome)
    IN  IF ~c.err.isNil
        THEN [success |-> FALSE, score |-> 0, action |-> "", err |-> c.err]
        ELSE [success |-> c.r.Success, score |-> c.r.Score, action |-> c.r.Action,
              err |-> convertErrorCodes(c.r.ErrorCodes).err]

\* ------------------------------------------------------ inputs drawn
\* Keys handed to Init.
InitKeys == {"a", "bc"}

\* (remoteip, response) pairs handed to Confirm and ConfirmV3; either may be
\* empty.
CallArgs == {<<"", "">>, <<"203.0.113.7", "tok">>}

\* What the remote end may do with a POST.
Outcomes ==
    { PostFailed("dial tcp: connection refused"),
      ReadFailed("unexpected EOF"),
      Answered(JSONBody("invalid character '<' looking for beginning of value", <<>>)),
      Answered(JSONBody("", << Member("success", JBool(TRUE)),
                               Member("error-codes", JArray(<<>>)) >>)),
      Answered(JSONBody("", << Member("success", JBool(FALSE)),
                               Member("error-codes", JArray(<<"missing-input-response">>)) >>)),
      Answered(JSONBody("", << Member("success", JBool(TRUE)),
                               Member("score", JNumber(9)),
                               Member("action", JString("login")),
                               Member("challenge_ts", JString("2026-01-02T03:04:05Z")),
                               Member("hostname", JString("example.org")),
                               Member("error-codes", JArray(<<>>)) >>)),
      Answered(JSONBody("", << Member("success", JBool(TRUE)),
                               Member("score", JNumber(3)),
                               Member("action", JString("login")),
                               Member("error-codes", JArray(<<"xyz", "bad-request">>)) >>)),
      Answered(JSONBody("", << Member("success", JBool(FALSE)),
                               Member("apk_package_name", JString("x")) >>)),
      Answered(JSONBody("", << Member("success", JBool(TRUE)),
                               Member("action", JString("login")),
                               Member("error-codes", JArray(<<"timeout-or-duplicate">>)),
                               Member("score", JString("high")) >>)),
      Answered(JSONBody("", << Member("success", JBool(TRUE)),
                               Member("challenge_ts", JString("yesterday")),
                               Member("score", JNumber(9)) >>)) }

\* Bytes found behind the end of a string's backing array.
Junk == {"#", "?"}

\* ------------------------------------------------------------- state
VARIABLES
    recaptchaPrivateKey,  \* the package variable, as its two words [data, len]
    lastKey,              \* history: the argument of the latest Init call
    inits,                \* inits[i]: one invocation of Init
    calls,                \* calls[c]: one invocation of Confirm or ConfirmV3
    requests,             \* requests[c]: the POSTs invocation c has issued
    errorCodes,           \* a slice a caller hands to convertErrorCodes
    errorCodes0,          \* history: that slice as the provider reported it
    success0,             \* the success field reported beside errorCodes0
    errs,                 \* the errors convertErrorCodes returned for it
    confirmed             \* what Confirm returned for that report, once called

vars == <<recaptchaPrivateKey, lastKey, inits, calls, requests,
          errorCodes, errorCodes0, success0, errs, confirmed>>

verifierVars == <<recaptchaPrivateKey, lastKey, inits, calls, requests>>
translateVars == <<errorCodes, errorCodes0, success0, errs, confirmed>>

Words == {"data", "len"}

NoOutcome == [kind |-> "none", cause |-> "", body |-> JSONBody("", <<>>)]
NoResult == [success |-> FALSE, err |-> NilError]

IdleInit == [pc |-> "idle", key |-> "", stored |-> {}]
IdleCall ==
    [pc |-> "idle", fn |-> "", remoteip |-> "", response |-> "",
     data |-> "", len |-> 0, loaded |-> {}, outcome |-> NoOutcome, result |-> NoResult]

\* var recaptchaPrivateKey string
InitVerifier ==
    /\ recaptchaPrivateKey = [data |-> "", len |-> 0]
    /\ lastKey = ""
    /\ inits = [i \in Inits |-> IdleInit]
    /\ calls = [c \in Calls |-> IdleCall]
    /\ requests = [c \in Calls |-> <<>>]

NoTranslate ==
    /\ errorCodes = NilSlice
    /\ errorCodes0 = NilSlice
    /\ success0 = FALSE
    /\ errs = <<>>
    /\ confirmed = <<>>

Init == InitVerifier /\ NoTranslate

\* ------------------------------------------------------------- Init
\* The assignment made only while the key is still unset.
StoreWordOnce(key, w) ==
    IF recaptchaPrivateKey[w] = (IF w = "data" THEN "" ELSE 0)
    THEN [recaptchaPrivateKey EXCEPT ![w] = IF w = "data" THEN key ELSE Len(key)]
    ELSE recaptchaPrivateKey

\* One word of the assignment recaptchaPrivateKey = key.
StoreWord(key, w) ==
    [recaptchaPrivateKey EXCEPT ![w] = IF w = "data" THEN key ELSE Len(key)]

\* Init(key) is called and stores the first word of the key.
InitBegin(i, key, w) ==
    /\ inits[i].pc = "idle"
    /\ recaptchaPrivateKey' = StoreWord(key, w)
    /\ lastKey' = key
    /\ inits' = [inits EXCEPT ![i] = [pc |-> "storing", key |-> key, stored |-> {w}]]
    /\ UNCHANGED <<calls, requests>>
    /\ UNCHANGED translateVars

\* Init stores the other word and returns.
InitEnd(i) ==
    /\ inits[i].pc = "storing"
    /\ \E w \in Words \ inits[i].stored :
          /\ recaptchaPrivateKey' = StoreWord(inits[i].key, w)
          /\ inits' = [inits EXCEPT ![i].pc = "done", ![i].stored = Words]
    /\ UNCHANGED <<lastKey, calls, requests>>
    /\ UNCHANGED translateVars

\* ------------------------------------------------------------ check
\* One word of the read of recaptchaPrivateKey in check's url.Values literal.
LoadWord(call, w) == [call EXCEPT ![w] = recaptchaPrivateKey[w], !.loaded = @ \cup {w}]

\* The strings a string header [data, len] can yield when its bytes are
\* read: the first len bytes of the backing array; with len beyond the array
\* (a header torn by a concurrent store) the bytes behind it, or a fault.
ReadString(data, len) ==
    IF len <= Len(data)
    THEN {[fault |-> FALSE, s |-> SubSeq(data, 1, len)]}
    ELSE {[fault |-> TRUE, s |-> ""]} \cup
         (IF data = "" THEN {}
          ELSE {[fault |-> FALSE, s |-> data \o SubSeq(j \o j \o j, 1, len - Len(data))] :
                    j \in Junk})

\* PostForm behind a local check that turns an empty token away.
PostFormNonEmpty(sent, secret, remoteip, response) ==
    IF response = "" THEN sent
    ELSE Append(sent, [secret |-> secret, remoteip |-> remoteip, response |-> response])

\* http.PostForm(recaptchaServerName, url.Values{...}): one more POST on the
\* wire, carrying the form.
PostForm(sent, secret, remoteip, response) ==
    Append(sent, [secret |-> secret, remoteip |-> remoteip, response |-> response])

\* Confirm or ConfirmV3 is called, enters check and reads the first word of
\* the key.
Call(c, fn, remoteip, response, w) ==
    /\ calls[c].pc = "idle"
    /\ calls' = [calls EXCEPT ![c] =
                    LoadWord([IdleCall EXCEPT !.pc = "loading", !.fn = fn,
                                              !.remoteip = remoteip, !.response = response], w)]
    /\ UNCHANGED <<recaptchaPrivateKey, lastKey, inits, requests>>
    /\ UNCHANGED translateVars

\* check reads the other word of the key and sends the POST.
Post(c) ==
    /\ calls[c].pc = "loading"
    /\ \E w \in Words \ calls[c].loaded :
          LET call == LoadWord(calls[c], w)
          IN  \E got \in ReadString(call.data, call.len) :
                IF got.fault
                THEN /\ calls' = [calls EXCEPT ![c] = [call EXCEPT !.pc = "panicked"]]
                     /\ UNCHANGED requests
                ELSE /\ calls' = [calls EXCEPT ![c] = [call EXCEPT !.pc = "waiting"]]
                     /\ requests' = [requests EXCEPT ![c] =
                                        PostForm(@, got.s, call.remoteip, call.response)]
    /\ UNCHANGED <<recaptchaPrivateKey, lastKey, inits>>
    /\ UNCHANGED translateVars

\* The POST comes back (or fails); check decodes, and Confirm or ConfirmV3
\* returns.
Return(c, outcome) ==
    /\ calls[c].pc = "waiting"
    /\ calls' = [calls EXCEPT ![c].pc = "done",
                              ![c].outcome = outcome,
                              ![c].result = IF calls[c].fn = "Confirm"
                                            THEN Confirm(outcome)
                                            ELSE ConfirmV3(outcome)]
    /\ UNCHANGED <<recaptchaPrivateKey, lastKey, inits, requests>>
    /\ UNCHANGED translateVars

\* ------------------------------------------------- the specifications
NoInitStoring == \A i \in Inits : inits[i].pc # "storing"
NoCallLoading == \A c \in Calls : calls[c].pc # "loading"

\* The documented use: Init never runs while another Init or a key read of a
\* verification call is under way; verification calls overlap freely.
Next ==
    \/ \E i \in Inits, key \in InitKeys, w \in Words :
          NoInitStoring /\ NoCallLoading /\ InitBegin(i, key, w)
    \/ \E i \in Inits : InitEnd(i)
    \/ \E c \in Calls, fn \in {"Confirm", "ConfirmV3"}, a \in CallArgs, w \in Words :
          NoInitStoring /\ Call(c, fn, a[1], a[2], w)
    \/ \E c \in Calls : Post(c)
    \/ \E c \in Calls, outcome \in Outcomes : Return(c, outcome)

Spec == Init /\ [][Next]_vars

\* Init calls follow one another (a single writer), and overlap the
\* verification calls freely.
NextRace ==
    \/ \E i \in Inits, key \in InitKeys, w \in Words : NoInitStoring /\ InitBegin(i, key, w)
    \/ \E i \in Inits : InitEnd(i)
    \/ \E c \in Calls, fn \in {"Confirm", "ConfirmV3"}, a \in CallArgs, w \in Words :
          Call(c, fn, a[1], a[2], w)
    \/ \E c \in Calls : Post(c)
    \/ \E c \in Calls, outcome \in Outcomes : Return(c, outcome)

SpecRace == Init /\ [][NextRace]_vars

\* ------------------------------------- convertErrorCodes on its own
\* The codes a provider may report: the six documented ones and one that
\* the table does not know.
ReportedCodes == DOMAIN responseErrors \cup {"xyz"}

CodeLists == UNION {[1..n -> ReportedCodes] : n \in 0..MaxCodes}

\* The body that reports success0 and errorCodes0; a nil list is a body
\* without the error-codes member.
ReportBody(success, codes) ==
    JSONBody("", << Member("success", JBool(success)) >> \o
                 (IF codes.isNil THEN <<>> ELSE << Member("error-codes", JArray(codes.elems)) >>))

InitTranslate ==
    /\ InitVerifier
    /\ success0 \in BOOLEAN
    /\ errorCodes0 \in {NilSlice} \cup {MakeSlice(l) : l \in CodeLists}
    /\ errorCodes = errorCodes0
    /\ errs = <<>>
    /\ confirmed = <<>>

\* A caller hands its slice to convertErrorCodes (once more).
Translate ==
    /\ Len(errs) < MaxTranslate
    /\ LET ret == convertErrorCodes(errorCodes)
       IN  /\ errorCodes' = ret.errorCodes
           /\ errs' = Append(errs, ret.err)
    /\ UNCHANGED <<errorCodes0, success0, confirmed>>
    /\ UNCHANGED verifierVars

\* Confirm returns for a POST answered with that report.
ConfirmReport ==
    /\ confirmed = <<>>
    /\ confirmed' = << Confirm(Answered(ReportBody(success0, errorCodes0))) >>
    /\ UNCHANGED <<errorCodes, errorCodes0, success0, errs>>
    /\ UNCHANGED verifierVars

NextTranslate == Translate \/ ConfirmReport

SpecTranslate == InitTranslate /\ [][NextTranslate]_vars

\* ============================================================ claims
Done(c) == calls[c].pc = "done"

\* The response check decoded for invocation c, and json.Unmarshal's error.
Decoded(c) == Unmarshal(calls[c].outcome.body, ZeroResponse)

DecodedOK(c) == Done(c) /\ calls[c].outcome.kind = "body" /\ Decoded(c).err.isNil

\* C1: for a response received and decoded without error, Confirm returns the
\* response's success field, and a non-nil error exactly when the response's
\* error-codes list is non-empty; the two are independent.
C1_ConfirmSuccessAndError ==
    \A c \in Calls :
        (DecodedOK(c) /\ calls[c].fn = "Confirm") =>
            /\ calls[c].result.success = Decoded(c).r.Success
            /\ calls[c].result.err.isNil <=> (Len(Decoded(c).r.ErrorCodes.elems) = 0)

C1_Witness ==
    \E c \in Calls :
        /\ DecodedOK(c) /\ calls[c].fn = "Confirm"
        /\ Decoded(c).r.Success
        /\ Decoded(c).r.ErrorCodes.elems = <<"xyz", "bad-request">>
        /\ calls[c].result.success
        /\ ~calls[c].result.err.isNil

\* C2: when the POST fails or the body cannot be read, Confirm returns
\* (false, err) and ConfirmV3 (false, 0.0, "", err), err non-nil and wrapping
\* the cause; nothing is decoded and no error code is translated.
C2_TransportFailure ==
    \A c \in Calls :
        (Done(c) /\ calls[c].outcome.kind \in {"postError", "readError"}) =>
            LET res == calls[c].result
                prefix == IF calls[c].outcome.kind = "postError"
                          THEN "post error: "
                          ELSE "read error: could not read body: "
            IN  /\ res.success = FALSE
                /\ ~res.err.isNil
                /\ res.err.cause = calls[c].outcome.cause
                /\ res.err.msg = prefix \o calls[c].outcome.cause
                /\ calls[c].fn = "ConfirmV3" => (res.score = 0 /\ res.action = "")

C2_Witness ==
    \E c \in Calls :
        /\ Done(c) /\ calls[c].fn = "ConfirmV3"
        /\ calls[c].outcome.kind = "readError"
        /\ calls[c].result.err.cause = "unexpected EOF"

\* C3: when the body is not JSON of the expected shape, Confirm and ConfirmV3
\* return the decode error with success false (score 0.0, action ""), even
\* when the decoder had stored fields before it failed; the provider's error
\* codes are not translated on this path.
C3_DecodeFailure ==
    \A c \in Calls :
        (Done(c) /\ calls[c].outcome.kind = "body" /\ ~Decoded(c).err.isNil) =>
            LET res == calls[c].result
            IN  /\ res.success = FALSE
                /\ ~res.err.isNil
                /\ res.err.cause = Decoded(c).err.msg
                /\ res.err.msg = "read error: JSON unmarshal error: " \o Decoded(c).err.msg
                /\ calls[c].fn = "ConfirmV3" => (res.score = 0 /\ res.action = "")

C3_Witness ==
    \E c \in Calls :
        /\ Done(c) /\ calls[c].fn = "Confirm"
        /\ calls[c].outcome.kind = "body" /\ ~Decoded(c).err.isNil
        /\ Decoded(c).r.Success
        /\ Len(Decoded(c).r.ErrorCodes.elems) > 0
        /\ calls[c].result.success = FALSE

\* C8: ConfirmV3 follows Confirm: for every outcome of the remote call its
\* success value and its error are those Confirm returns for that outcome,
\* and for a decoded response it returns the response's score and action.
C8_ConfirmV3AsConfirm ==
    \A c \in Calls :
        (Done(c) /\ calls[c].fn = "ConfirmV3") =>
            /\ calls[c].result.success = Confirm(calls[c].outcome).success
            /\ calls[c].result.err = Confirm(calls[c].outcome).err
            /\ DecodedOK(c) => /\ calls[c].result.score = Decoded(c).r.Score
                               /\ calls[c].result.action = Decoded(c).r.Action

C8_Witness ==
    \E c \in Calls :
        /\ DecodedOK(c) /\ calls[c].fn = "ConfirmV3"
        /\ calls[c].result.score = 3 /\ calls[c].result.action = "login"
        /\ calls[c].result.success
        /\ ~calls[c].result.err.isNil

\* C9: every invocation of Confirm or ConfirmV3 issues exactly one POST with
\* the fields secret, remoteip and response, whatever its arguments (an empty
\* token and an empty address included), and never a second one, whatever
\* came back.
C9_OnePostPerCall ==
    \A c \in Calls :
        /\ calls[c].pc \in {"idle", "loading", "waiting", "done"}
        /\ calls[c].pc \in {"idle", "loading"} => requests[c] = <<>>
        /\ calls[c].pc \in {"waiting", "done"} =>
              /\ Len(requests[c]) = 1
              /\ DOMAIN requests[c][1] = {"secret", "remoteip", "response"}
              /\ requests[c][1].remoteip = calls[c].remoteip
              /\ requests[c][1].response = calls[c].response

C9_Witness ==
    \E c \in Calls :
        /\ Done(c)
        /\ calls[c].remoteip = "" /\ calls[c].response = ""
        /\ calls[c].outcome.kind = "postError"
        /\ Len(requests[c]) = 1

\* C7: the secret of a verification request is the argument of the latest
\* Init call, and the empty string before any; the request is sent whatever
\* the key; Init changes nothing but the stored key.
C7_LastInitWins ==
    [][ /\ \A c \in Calls :
              calls[c].pc = "loading" /\ calls'[c] # calls[c] =>
                  /\ calls'[c].pc = "waiting"
                  /\ Len(requests'[c]) = Len(requests[c]) + 1
                  /\ requests'[c][Len(requests'[c])].secret = lastKey
        /\ inits' # inits => (calls' = calls /\ requests' = requests) ]_vars

C7_Witness ==
    \E c \in Calls :
        /\ Len(requests[c]) = 1
        /\ requests[c][1].secret = lastKey
        /\ \A i \in Inits : inits[i].pc = "done"
        /\ \E i \in Inits : inits[i].key # lastKey

\* C10: concurrent calls share nothing but the key: with Init never called
\* each sends the configured key, and each returns what its own response
\* determines; a call that overlaps Init sends the old key or the new one,
\* never a mixture.
C10_OldOrNewKey ==
    \A c \in Calls :
        /\ \A k \in 1..Len(requests[c]) :
              requests[c][k].secret \in
                  {""} \cup {inits[i].key : i \in {j \in Inits : inits[j].pc # "idle"}}
        /\ Done(c) => calls[c].result = IF calls[c].fn = "Confirm"
                                        THEN Confirm(calls[c].outcome)
                                        ELSE ConfirmV3(calls[c].outcome)

\* The text the claim gives for code e.
EntryFor(e) ==
    CASE e = "missing-input-secret"   -> "the secret parameter is missing"
      [] e = "invalid-input-secret"   -> "the secret parameter is invalid or malformed"
      [] e = "missing-input-response" -> "the response parameter is missing"
      [] e = "invalid-input-response" -> "the response parameter is invalid or malformed"
      [] e = "bad-request"            -> "the request is invalid or malformed"
      [] e = "timeout-or-duplicate"   ->
            "the response is no longer valid - too old or used previously"
      [] OTHER -> "unknown error code " \o e

\* C4: for a non-empty list of codes the aggregate error lists one entry per
\* code, in order: the table's text for a known code, "unknown error code "
\* and the code otherwise.
C4_OneEntryPerCode ==
    (Len(errs) >= 1 /\ Len(errorCodes0.elems) > 0) =>
        LET n == Len(errorCodes0.elems)
            entries == [i \in 1..n |-> EntryFor(errorCodes0.elems[i])]
        IN  /\ ~errs[1].isNil
            /\ errs[1].msg = "reCAPTCHA request errors: " \o FormatV(entries)

C4_Witness ==
    /\ Len(errs) >= 1
    /\ errorCodes0.elems = <<"xyz", "missing-input-response">>
    /\ errs[1].msg =
         "reCAPTCHA request errors: [unknown error code xyz the response parameter is missing]"

\* C5: for an empty list of codes, nil or not, the translator returns no
\* error whatever the other fields are; so Confirm returns (false, nil) for a
\* response with success false and no error-codes member.
C5_EmptyIsNoError ==
    Len(errorCodes0.elems) = 0 =>
        /\ \A k \in 1..Len(errs) : errs[k] = NilError
        /\ confirmed # <<>> => confirmed[1] = [success |-> success0, err |-> NilError]

C5_Witness ==
    /\ errorCodes0 = NilSlice
    /\ success0 = FALSE
    /\ Len(errs) >= 1 /\ errs[1] = NilError
    /\ confirmed = << [success |-> FALSE, err |-> NilError] >>

\* C6: the translator has no side effect: the caller's list holds the same
\* codes after the call as before it, so translating the same list twice
\* gives the same error both times.
C6_TranslatorIsPure ==
    /\ errorCodes = errorCodes0
    /\ \A j, k \in 1..Len(errs) : errs[j] = errs[k]

====
